---- MODULE Spec2Model ----
(***************************************************************************)
(* A model of pyro/infer/util.py: the reductions reduce_to_target and      *)
(* reduce_to_shape, the MultiFrameTensor accumulator (add, sum_to) and the *)
(* Dice weighting-factor engine (construction from a trace,                *)
(* get_log_factors, get_dice_prob, expectation).                           *)
(*                                                                         *)
(* Tensors are records [shape, data] with data in row-major order and      *)
(* integer elements.  Python dicts are sequences of [key, val] records in  *)
(* insertion order.                                                        *)
(***************************************************************************)
EXTENDS Integers, Sequences, FiniteSets, TLC

VARIABLES mft, nPairs, guide_trace, log_denom, log_probs,
          log_factors_cache, dice_prob_cache, lastOp, ret

vars == <<mft, nPairs, guide_trace, log_denom, log_probs,
          log_factors_cache, dice_prob_cache, lastOp, ret>>

mftVars == <<mft, nPairs>>

diceVars == <<guide_trace, log_denom, log_probs,
              log_factors_cache, dice_prob_cache>>

(***************************************************************************)
(* Bounds of the model.                                                    *)
(***************************************************************************)
\* size of a vectorized axis (every tensor axis has size 1 or AxisSize)
AxisSize == 2

\* number of (cond_indep_stack, value) pairs handed to the accumulator
MaxPairs == 2

\* the same number in SpecAlgebra
AlgPairs == 1

(***************************************************************************)
(* Frames and cond_indep_stacks.                                           *)
(***************************************************************************)
FrameA == [name |-> "A", dim |-> -1, vectorized |-> TRUE]

FrameB == [name |-> "B", dim |-> -2, vectorized |-> TRUE]

\* a sequential (non-vectorized) frame; its dim is None in the program and
\* is never read
FrameS == [name |-> "S", dim |-> 0, vectorized |-> FALSE]

\* a vectorized frame that breaks the invariant dim < 0
FrameZ == [name |-> "Z", dim |-> 0, vectorized |-> TRUE]

VecFrames == {FrameA, FrameB}

Stacks ==
  { <<>>, <<FrameA>>, <<FrameB, FrameA>>, <<FrameA, FrameB>>,
    <<FrameS, FrameA>>, <<FrameZ>> }

TargetFrames == SUBSET VecFrames

(***************************************************************************)
(* Tensors.                                                                *)
(***************************************************************************)
RECURSIVE Prod(_)
Prod(s) == IF s = <<>> THEN 1 ELSE Head(s) * Prod(Tail(s))

RECURSIVE SumSeq(_)
SumSeq(s) == IF s = <<>> THEN 0 ELSE Head(s) + SumSeq(Tail(s))

Max(a, b) == IF a >= b THEN a ELSE b

\* number of elements spanned by one step along axis k of shape s
Stride(s, k) == Prod(SubSeq(s, k + 1, Len(s)))

\* coordinate along axis k of the element with 0-based flat index i
Coord(i, s, k) == (i \div Stride(s, k)) % s[k]

\* value.shape[d] for a negative Python index d
ShapeAt(t, d) == t.shape[Len(t.shape) + d + 1]

\* the shape two shapes broadcast to (aligned from the trailing axis)
BroadcastShape(s1, s2) ==
  LET n == Max(Len(s1), Len(s2))
      D(s, k) == IF k - (n - Len(s)) >= 1 THEN s[k - (n - Len(s))] ELSE 1
  IN  [k \in 1..n |-> Max(D(s1, k), D(s2, k))]

\* the element of t that broadcasting puts at flat index i of shape out
BGet(t, out, i) ==
  LET off == Len(out) - Len(t.shape)
      flat == SumSeq([k \in 1..Len(t.shape) |->
                 (IF t.shape[k] = 1 THEN 0 ELSE Coord(i, out, k + off))
                   * Stride(t.shape, k)])
  IN  t.data[flat + 1]

\* t1 + t2, element-wise with broadcasting; a new tensor
TensorAdd(t1, t2) ==
  LET out == BroadcastShape(t1.shape, t2.shape)
  IN  [shape |-> out,
       data  |-> [j \in 1..Prod(out) |->
                    BGet(t1, out, j - 1) + BGet(t2, out, j - 1)]]

\* t.sum(d, keepdim=True) for a negative axis index d; a new tensor
TensorSumKeep(t, d) ==
  LET ax  == Len(t.shape) + d + 1
      out == [t.shape EXCEPT ![ax] = 1]
      base(j) == SumSeq([k \in 1..Len(out) |->
                    Coord(j, out, k) * Stride(t.shape, k)])
  IN  [shape |-> out,
       data  |-> [j \in 1..Prod(out) |->
                    SumSeq([x \in 1..t.shape[ax] |->
                       t.data[base(j - 1) + (x - 1) * Stride(t.shape, ax) + 1]])]]

\* the outcome of "while value.shape and value.shape[0] == 1: squeeze_(0)"
RECURSIVE SqueezeLeading(_)
SqueezeLeading(t) ==
  IF t.shape # <<>> /\ t.shape[1] = 1
    THEN SqueezeLeading([shape |-> Tail(t.shape), data |-> t.data])
    ELSE t

\* the input tensors: every shape of rank <= 2 with axes of size 1 or
\* AxisSize, filled with distinct elements 1, 2, 3, ...
Shapes ==
  {<<>>} \cup {<<a>> : a \in {1, AxisSize}}
         \cup {<<a, b>> : a, b \in {1, AxisSize}}

Iota(s) == [shape |-> s, data |-> [j \in 1..Prod(s) |-> j]]

Tensors == {Iota(s) : s \in Shapes}

(***************************************************************************)
(* Python values returned by a call.                                       *)
(***************************************************************************)
None == [kind |-> "None"]

Raised(e) == [kind |-> "raise", exc |-> e]

Value(v) == [kind |-> "value", val |-> v]

(***************************************************************************)
(* dict operations (insertion-ordered).                                    *)
(***************************************************************************)
DictKeys(d) == {d[i].key : i \in DOMAIN d}

DictIndex(d, k) == CHOOSE i \in DOMAIN d : d[i].key = k

DictGet(d, k) == d[DictIndex(d, k)].val

\* d[k] = v: overwrite in place, or append a new key
DictSet(d, k, v) ==
  IF k \in DictKeys(d)
    THEN [d EXCEPT ![DictIndex(d, k)].val = v]
    ELSE Append(d, [key |-> k, val |-> v])

(***************************************************************************)
(* MultiFrameTensor.add                                                    *)
(***************************************************************************)
\* a key made of every frame of the stack, vectorized or not
FramesOfAll(stack) == {stack[i] : i \in DOMAIN stack}

\* frozenset(f for f in cond_indep_stack if f.vectorized)
FramesOf(stack) == {stack[i] : i \in {j \in DOMAIN stack : stack[j].vectorized}}

\* the assertion of add
FramesFit(frames, value) ==
  \A f \in frames : f.dim < 0 /\ -Len(value.shape) <= f.dim

\* a store that overwrites an existing entry instead of accumulating
AddEntryOverwrite(m, frames, value) == DictSet(m, frames, value)

\* the store of add: accumulate into an existing entry, else insert
AddEntry(m, frames, value) ==
  IF frames \in DictKeys(m)
    THEN DictSet(m, frames, TensorAdd(DictGet(m, frames), value))
    ELSE DictSet(m, frames, value)

\* a bulk add that checks every pair before it stores any
RECURSIVE addAtomic(_, _)
addAtomic(m, items) ==
  IF \E i \in DOMAIN items : ~FramesFit(FramesOf(items[i][1]), items[i][2])
    THEN [mft |-> m, ret |-> Raised("AssertionError")]
  ELSE IF items = <<>> THEN [mft |-> m, ret |-> None]
  ELSE addAtomic(AddEntry(m, FramesOf(items[1][1]), items[1][2]), Tail(items))

\* add(*items) on accumulator m: the pairs are applied in order until one
\* fails the assertion
RECURSIVE add(_, _)
add(m, items) ==
  IF items = <<>> THEN [mft |-> m, ret |-> None]
  ELSE LET frames == FramesOf(items[1][1])
           value  == items[1][2]
       IN  IF ~FramesFit(frames, value)
             THEN [mft |-> m, ret |-> Raised("AssertionError")]
             ELSE add(AddEntry(m, frames, value), Tail(items))

(***************************************************************************)
(* MultiFrameTensor.sum_to                                                 *)
(***************************************************************************)
\* the axes the inner loop sums out
SummedFrames(frames, value, target_frames) ==
  {f \in frames : f \notin target_frames /\ ShapeAt(value, f.dim) # 1}

\* value.shape[f.dim] is read for every frame outside the target
IndexFails(frames, value, target_frames) ==
  \E f \in frames : f \notin target_frames /\ -f.dim > Len(value.shape)

RECURSIVE SumOut(_, _)
SumOut(value, fs) ==
  IF fs = {} THEN value
  ELSE LET f == CHOOSE g \in fs : TRUE
       IN  SumOut(TensorSumKeep(value, f.dim), fs \ {f})

\* a running total that keeps only the value of the last entry
AccumulateLast(total, value) == Value(value)

\* result = value if result is None else result + value
Accumulate(total, value) ==
  IF total = None THEN Value(value) ELSE Value(TensorAdd(total.val, value))

\* the loop of sum_to from entry i on; total is None or Value(tensor).
\* squeeze_ works in place: when no axis was summed, value is still the
\* stored tensor and the entry itself is squeezed.
RECURSIVE SumToFrom(_, _, _, _)
SumToFrom(m, i, total, target_frames) ==
  IF i > Len(m) THEN [mft |-> m, ret |-> total]
  ELSE LET frames == m[i].key
           stored == m[i].val
       IN  IF IndexFails(frames, stored, target_frames)
             THEN [mft |-> m, ret |-> Raised("IndexError")]
             ELSE LET fs      == SummedFrames(frames, stored, target_frames)
                      value   == SqueezeLeading(SumOut(stored, fs))
                      m2      == IF fs = {} THEN [m EXCEPT ![i].val = value]
                                 ELSE m
                      total2  == Accumulate(total, value)
                  IN  SumToFrom(m2, i + 1, total2, target_frames)

sum_to(m, target_frames) == SumToFrom(m, 1, None, target_frames)

(***************************************************************************)
(* The accumulator as a state machine.                                     *)
(***************************************************************************)
Pairs == Stacks \X Tensors

ItemSeqs(n) == UNION {[1..k -> Pairs] : k \in 0..n}

NoDice ==
  /\ guide_trace = <<>>
  /\ log_denom = <<>>
  /\ log_probs = <<>>
  /\ log_factors_cache = <<>>
  /\ dice_prob_cache = <<>>

\* MultiFrameTensor(*items) with at most n pairs, for the constructions
\* that return
Construct(n) ==
  /\ NoDice
  /\ \E items \in ItemSeqs(n) :
       \E r \in {add(<<>>, items)} :
           /\ r.ret = None
           /\ mft = r.mft
           /\ nPairs = Len(items)
  /\ lastOp = [op |-> "init", target |-> {}]
  /\ ret = None

\* a call add(*items) while fewer than n pairs have been handed over
AddUpTo(n) ==
  \E items \in ItemSeqs(n - nPairs) :
    \E r \in {add(mft, items)} :
        /\ mft' = r.mft
        /\ ret' = r.ret
        /\ nPairs' = nPairs + Len(items)

Init == Construct(MaxPairs)

Add ==
  /\ AddUpTo(MaxPairs)
  /\ lastOp' = [op |-> "add", target |-> {}]
  /\ UNCHANGED diceVars

SumTo ==
  /\ \E target_frames \in TargetFrames :
       \E r \in {sum_to(mft, target_frames)} :
           /\ mft' = r.mft
           /\ ret' = r.ret
           /\ lastOp' = [op |-> "sum_to", target |-> target_frames]
  /\ UNCHANGED <<nPairs, diceVars>>

Next == Add \/ SumTo

Spec == Init /\ [][Next]_vars

\* The same machine with the smaller budget AlgPairs, for the claims that
\* compare sequences of calls tried on every reachable accumulator.
InitAlg == Construct(AlgPairs)

AddFew ==
  /\ AddUpTo(AlgPairs)
  /\ lastOp' = [op |-> "add", target |-> {}]
  /\ UNCHANGED diceVars

NextAlg == AddFew \/ SumTo

SpecAlgebra == InitAlg /\ [][NextAlg]_vars

(***************************************************************************)
(* reduce_to_shape and reduce_to_target                                    *)
(***************************************************************************)
\* t.sum(0): the leading axis is summed out and removed
TensorSum0(t) ==
  [shape |-> Tail(t.shape), data |-> TensorSumKeep(t, -Len(t.shape)).data]

\* while source.dim() > n: source = source.sum(0)
RECURSIVE DropLeading(_, _)
DropLeading(source, n) ==
  IF Len(source.shape) > n THEN DropLeading(TensorSum0(source), n)
  ELSE source

\* a test that also sums an axis as large as the target's
ExceedsOrEquals(source, shape, k) ==
  ShapeAt(source, -k) >= shape[Len(shape) - k + 1]

\* source.size(-k) > shape[-k]
Exceeds(source, shape, k) ==
  ShapeAt(source, -k) > shape[Len(shape) - k + 1]

\* the for loop of reduce_to_shape from k on
RECURSIVE ReduceAxes(_, _, _)
ReduceAxes(source, shape, k) ==
  IF k > Len(source.shape) THEN source
  ELSE ReduceAxes(IF Exceeds(source, shape, k)
                    THEN TensorSumKeep(source, -k) ELSE source,
                  shape, k + 1)

reduce_to_shape(source, shape) ==
  ReduceAxes(DropLeading(source, Len(shape)), shape, 1)

\* the for loop of reduce_to_target from k on
RECURSIVE ReduceAxesTo(_, _, _)
ReduceAxesTo(source, target, k) ==
  IF k > Len(source.shape) THEN source
  ELSE ReduceAxesTo(IF ShapeAt(source, -k) > ShapeAt(target, -k)
                      THEN TensorSumKeep(source, -k) ELSE source,
                    target, k + 1)

reduce_to_target(source, target) ==
  ReduceAxesTo(DropLeading(source, Len(target.shape)), target, 1)

\* the largest rank of a source array
MaxRank == 3

\* the source arrays: every shape of rank <= MaxRank with axes of size 1,
\* AxisSize or AxisSize + 1 (the last is larger than any target axis)
SourceShapes ==
  UNION {[1..n -> {1, AxisSize, AxisSize + 1}] : n \in 0..MaxRank}

Sources == {Iota(s) : s \in SourceShapes}

\* the array the next reduction is applied to: the source, then each
\* result in turn
Current == IF ret = None THEN lastOp.source ELSE ret.val

Reduction(op, source, shape) == [op |-> op, source |-> source, shape |-> shape]

InitReduce ==
  /\ NoDice
  /\ mft = <<>>
  /\ nPairs = 0
  /\ \E x \in Sources : lastOp = Reduction("init", x, <<>>)
  /\ ret = None

ReduceToShape ==
  /\ \E shape \in Shapes :
       /\ ret' = Value(reduce_to_shape(Current, shape))
       /\ lastOp' = Reduction("reduce_to_shape", Current, shape)
  /\ UNCHANGED <<mftVars, diceVars>>

ReduceToTarget ==
  /\ \E target \in Tensors :
       /\ ret' = Value(reduce_to_target(Current, target))
       /\ lastOp' = Reduction("reduce_to_target", Current, target.shape)
  /\ UNCHANGED <<mftVars, diceVars>>

NextReduce == ReduceToShape \/ ReduceToTarget

SpecReduce == InitReduce /\ [][NextReduce]_vars

(***************************************************************************)
(* Numbers and tensors of the Dice engine.                                 *)
(*                                                                         *)
(* A log-domain quantity x is kept exactly, as the positive rational       *)
(* explog = e^x: adding two of them multiplies the rationals, negating     *)
(* inverts, log(n) is n/1 and zero is 1/1.  A Python number carries only   *)
(* that; a tensor also has a shape, all its elements equal, and grad, the  *)
(* set of sites whose log-probability it differentiates as.  exp() yields  *)
(* a tensor holding the rational itself, in field lin.                     *)
(***************************************************************************)
RECURSIVE GCD(_, _)
GCD(a, b) == IF b = 0 THEN a ELSE GCD(b, a % b)

Rat(a, b) == LET g == GCD(a, b) IN <<a \div g, b \div g>>

RatMul(x, y) == Rat(x[1] * y[1], x[2] * y[2])

RatInv(x) == <<x[2], x[1]>>

Number(x) == [kind |-> "number", explog |-> x]

\* the int 0 and the float 0.0
PyZero == Number(<<1, 1>>)

\* math.log(n)
MathLog(n) == Number(Rat(n, 1))

LogTensor(shape, x, grad) ==
  [kind |-> "tensor", shape |-> shape, explog |-> x, grad |-> grad]

ShapeOf(x) == IF x.kind = "tensor" THEN x.shape ELSE <<>>

GradOf(x) == IF x.kind = "tensor" THEN x.grad ELSE {}

\* x + y for numbers and tensors
PyAdd(x, y) ==
  IF x.kind = "number" /\ y.kind = "number"
    THEN Number(RatMul(x.explog, y.explog))
    ELSE LogTensor(BroadcastShape(ShapeOf(x), ShapeOf(y)),
                   RatMul(x.explog, y.explog), GradOf(x) \cup GradOf(y))

\* -x
PyNeg(x) == [x EXCEPT !.explog = RatInv(@)]

\* x.detach()
Detach(x) == [x EXCEPT !.grad = {}]

\* sum(terms): the fold of + from the int 0
RECURSIVE PySum(_)
PySum(terms) ==
  IF terms = <<>> THEN PyZero
  ELSE PyAdd(PySum(SubSeq(terms, 1, Len(terms) - 1)), terms[Len(terms)])

\* x.exp(): numbers have no such method
TensorExp(x) ==
  IF x.kind = "number" THEN Raised("AttributeError")
  ELSE Value([kind |-> "tensor", shape |-> x.shape, lin |-> x.explog,
              grad |-> x.grad])

\* (dice_prob * cost).sum() for a cost tensor of integers
WeightedSum(dice_prob, cost) ==
  LET out == BroadcastShape(dice_prob.shape, cost.shape)
      s   == SumSeq([j \in 1..Prod(out) |-> BGet(cost, out, j - 1)])
  IN  [kind |-> "tensor", shape |-> <<>>,
       lin |-> Rat(dice_prob.lin[1] * s, dice_prob.lin[2]),
       grad |-> dice_prob.grad]

\* pyro.distributions.util.is_identically_zero: true of the number zero
\* only, never of a tensor
is_identically_zero(x) == x.kind = "number" /\ x.explog[1] = x.explog[2]

(***************************************************************************)
(* Traces.                                                                 *)
(***************************************************************************)
\* the number of sites of a trace
MaxSites == 2

\* the ordinals of sites and of queries
Ordinals == {{}, {FrameA}, {FrameB}}

SiteOrdinals == {{}, {FrameA}}

\* the batch shape of a log-probability recorded at an ordinal
BatchShape(ordinal) == IF ordinal = {} THEN <<>> ELSE <<AxisSize>>

\* a site without its name; ordinal is ordering[name]
Site(type, score, enum, total, ordinal) ==
  [type |-> type, score_function |-> score, enumerate |-> enum,
   enum_total |-> total, ordinal |-> ordinal]

SiteKinds ==
  { Site("param", "zero", "none", 1, {}),
    Site("sample", "zero", "sequential", 3, {FrameA}),
    Site("sample", "one", "parallel", 1, {}),
    Site("sample", "half", "parallel", 1, {}),
    Site("sample", "half", "sequential", 1, {}) }
  \cup
  { Site("sample", "half", e, 3, o) :
      e \in {"none", "sequential"}, o \in SiteOrdinals }

SiteName(i) == <<"site", i>>

\* site["score_parts"].score_function: the zero sentinel, or a tensor of
\* log-probabilities log(1/2) or log(1) = 0 that differentiates as itself
ScoreFunction(site, name) ==
  CASE site.score_function = "zero" -> PyZero
    [] site.score_function = "half" ->
         LogTensor(BatchShape(site.ordinal), <<1, 2>>, {name})
    [] site.score_function = "one" ->
         LogTensor(BatchShape(site.ordinal), <<1, 1>>, {name})

Traces == UNION {[1..n -> SiteKinds] : n \in 0..MaxSites}

(***************************************************************************)
(* Dice.__init__                                                           *)
(***************************************************************************)
\* log_denom[ordinal] += x on a defaultdict(lambda: 0.0)
DenomAdd(ld, ordinal, x) ==
  IF ordinal \in DictKeys(ld)
    THEN DictSet(ld, ordinal, PyAdd(DictGet(ld, ordinal), x))
    ELSE DictSet(ld, ordinal, PyAdd(PyZero, x))

\* an insertion at the front of the list
ProbsPrepend(lp, ordinal, x) ==
  IF ordinal \in DictKeys(lp)
    THEN DictSet(lp, ordinal, <<x>> \o DictGet(lp, ordinal))
    ELSE DictSet(lp, ordinal, <<x>>)

\* log_probs[ordinal].append(x) on a defaultdict(list)
ProbsAppend(lp, ordinal, x) ==
  IF ordinal \in DictKeys(lp)
    THEN DictSet(lp, ordinal, Append(DictGet(lp, ordinal), x))
    ELSE DictSet(lp, ordinal, <<x>>)

\* a term that keeps the log-probability of a sampled site as it is
SiteTermRaw(site, log_prob) == log_prob

\* the term a site appends: the log-probability of an enumerated site, the
\* surrogate log_prob - log_prob.detach() of a sampled one
SiteTerm(site, log_prob) ==
  IF site.enumerate # "none" THEN log_prob
  ELSE PyAdd(log_prob, PyNeg(Detach(log_prob)))

\* a denominator added for every site, however it was drawn
SiteDenomAlways(ld, site) ==
  DenomAdd(ld, site.ordinal, MathLog(site.enum_total))

\* the denominator a site adds
SiteDenom(ld, site) ==
  IF site.enumerate = "sequential"
    THEN DenomAdd(ld, site.ordinal, MathLog(site.enum_total))
    ELSE ld

\* the scan of guide_trace.nodes from site i on
RECURSIVE DiceScan(_, _, _, _)
DiceScan(trace, i, ld, lp) ==
  IF i > Len(trace) THEN [log_denom |-> ld, log_probs |-> lp]
  ELSE LET site     == trace[i]
           log_prob == ScoreFunction(site, SiteName(i))
       IN  IF site.type # "sample" \/ is_identically_zero(log_prob)
             THEN DiceScan(trace, i + 1, ld, lp)
             ELSE DiceScan(trace, i + 1, SiteDenom(ld, site),
                           ProbsAppend(lp, site.ordinal,
                                       SiteTerm(site, log_prob)))

DiceInit(trace) == DiceScan(trace, 1, <<>>, <<>>)

(***************************************************************************)
(* Dice.get_log_factors, get_dice_prob, expectation                        *)
(*                                                                         *)
(* The two caches are dicts whose order is never read: functions from      *)
(* keys to values.                                                         *)
(***************************************************************************)
\* a store that also overwrites every entry already in the cache
CachePutAll(c, k, v) == [x \in DOMAIN c \cup {k} |-> v]

\* cache[k] = v
CachePut(c, k, v) == [x \in DOMAIN c \cup {k} |-> IF x = k THEN v ELSE c[x]]

\* the tuple (shape, ordinal) as a cache key
ShapeKey(shape, ordinal) == [shape |-> shape, ordinal |-> ordinal]

\* a bare ordinal as a cache key: never equal to a tuple
OrdinalKey(ordinal) == [ordinal |-> ordinal]

\* a test that also takes the target's own ordinal for "not upstream"
NotUpstreamStrict(ordinal, target_ordinal) ==
  ~(ordinal \subseteq target_ordinal /\ ordinal # target_ordinal)

\* "not ordinal <= target_ordinal" on frozensets
NotUpstream(ordinal, target_ordinal) == ~(ordinal \subseteq target_ordinal)

\* the reversed test
IsDownstream(ordinal, target_ordinal) == target_ordinal \subseteq ordinal

\* "ordinal <= target_ordinal" on frozensets
IsUpstream(ordinal, target_ordinal) == ordinal \subseteq target_ordinal

\* the first loop: log_denom summed, in dict order, over the ordinals that
\* are not upstream, starting from the int 0
RECURSIVE DenomTotal(_, _, _)
DenomTotal(ld, n, target_ordinal) ==
  IF n = 0 THEN PyZero
  ELSE LET sofar == DenomTotal(ld, n - 1, target_ordinal)
       IN  IF NotUpstream(ld[n].key, target_ordinal)
             THEN PyAdd(sofar, ld[n].val)
             ELSE sofar

\* the second loop: the term lists of the upstream ordinals, in dict order
RECURSIVE UpstreamTerms(_, _, _)
UpstreamTerms(lp, n, target_ordinal) ==
  IF n = 0 THEN <<>>
  ELSE UpstreamTerms(lp, n - 1, target_ordinal)
         \o (IF IsUpstream(lp[n].key, target_ordinal) THEN lp[n].val ELSE <<>>)

\* a list whose denominator term is not negated
ComputeLogFactorsUnsigned(ld, lp, target_ordinal) ==
  LET denom == DenomTotal(ld, Len(ld), target_ordinal)
  IN  (IF is_identically_zero(denom) THEN <<>> ELSE <<denom>>)
        \o UpstreamTerms(lp, Len(lp), target_ordinal)

\* the computation of get_log_factors on a cache miss
ComputeLogFactors(ld, lp, target_ordinal) ==
  LET denom == DenomTotal(ld, Len(ld), target_ordinal)
  IN  (IF is_identically_zero(denom) THEN <<>> ELSE <<PyNeg(denom)>>)
        \o UpstreamTerms(lp, Len(lp), target_ordinal)

\* a lookup log_denom[target_ordinal] on the defaultdict, which inserts
\* the default 0.0 for a missing key
DenomLookup(ld, target_ordinal) ==
  IF target_ordinal \in DictKeys(ld) THEN ld
  ELSE DictSet(ld, target_ordinal, PyZero)

\* log_denom after "for ordinal, term in self.log_denom.items()": the
\* defaultdict is iterated, never indexed, so no default entry is created
DenomRead(ld, target_ordinal) == ld

\* log_probs after "for ordinal, term in self.log_probs.items()";
\* "log_factors += term" extends the fresh list, not the stored ones
ProbsRead(lp, target_ordinal) == lp

\* the engine is [ld, lp, lfc, dpc]; a call returns the four mappings as it
\* leaves them, its value, whether the value came from the cache, and wr,
\* the attributes of the engine it assigned an item of
get_log_factors(d, target_ordinal) ==
  IF target_ordinal \in DOMAIN d.lfc
    THEN [ld |-> d.ld, lp |-> d.lp, lfc |-> d.lfc, dpc |-> d.dpc,
          hit |-> TRUE, wr |-> {}, ret |-> Value(d.lfc[target_ordinal])]
    ELSE LET log_factors == ComputeLogFactors(d.ld, d.lp, target_ordinal)
         IN  [ld |-> DenomRead(d.ld, target_ordinal),
              lp |-> ProbsRead(d.lp, target_ordinal),
              lfc |-> CachePut(d.lfc, target_ordinal, log_factors),
              dpc |-> d.dpc, hit |-> FALSE, wr |-> {"_log_factors_cache"},
              ret |-> Value(log_factors)]

\* the key get_dice_prob stores its result under
DiceStoreKey(shape, ordinal) == OrdinalKey(ordinal)

get_dice_prob(d, shape, ordinal) ==
  IF ShapeKey(shape, ordinal) \in DOMAIN d.dpc
    THEN [ld |-> d.ld, lp |-> d.lp, lfc |-> d.lfc, dpc |-> d.dpc,
          hit |-> TRUE, wr |-> {},
          ret |-> Value(d.dpc[ShapeKey(shape, ordinal)])]
    ELSE LET f         == get_log_factors(d, ordinal)
             dice_prob == TensorExp(PySum(f.ret.val))
         IN  IF dice_prob.kind = "raise"
               THEN [ld |-> f.ld, lp |-> f.lp, lfc |-> f.lfc, dpc |-> d.dpc,
                     hit |-> FALSE, wr |-> f.wr, ret |-> dice_prob]
               ELSE [ld |-> f.ld, lp |-> f.lp, lfc |-> f.lfc,
                     dpc |-> CachePut(d.dpc, DiceStoreKey(shape, ordinal),
                                      dice_prob.val),
                     hit |-> FALSE, wr |-> f.wr \cup {"_dice_prob_cache"},
                     ret |-> dice_prob]

expectation(d, cost, ordinal) ==
  LET p == get_dice_prob(d, cost.shape, ordinal)
  IN  IF p.ret.kind = "raise" THEN p
      ELSE [p EXCEPT !.ret = Value(WeightedSum(p.ret.val, cost))]

(***************************************************************************)
(* The engine as a state machine.                                          *)
(***************************************************************************)
Costs == {Iota(<<>>), Iota(<<AxisSize>>)}

Engine == [ld |-> log_denom, lp |-> log_probs,
           lfc |-> log_factors_cache, dpc |-> dice_prob_cache]

NoAccumulator == mft = <<>> /\ nPairs = 0

Call(op, shape, ordinal, cost, r) ==
  [op |-> op, shape |-> shape, target |-> ordinal, cost |-> cost,
   hit |-> r.hit, wr |-> r.wr]

\* Dice(guide_trace, ordering)
InitDice ==
  /\ NoAccumulator
  /\ guide_trace \in Traces
  /\ \E d \in {DiceInit(guide_trace)} :
       /\ log_denom = d.log_denom
       /\ log_probs = d.log_probs
  /\ log_factors_cache = <<>>
  /\ dice_prob_cache = <<>>
  /\ lastOp = Call("init", <<>>, {}, None, [hit |-> FALSE, wr |-> {}])
  /\ ret = None

GetLogFactors ==
  /\ \E o \in Ordinals :
       \E r \in {get_log_factors(Engine, o)} :
           /\ log_denom' = r.ld
           /\ log_probs' = r.lp
           /\ log_factors_cache' = r.lfc
           /\ dice_prob_cache' = r.dpc
           /\ ret' = r.ret
           /\ lastOp' = Call("get_log_factors", <<>>, o, None, r)
  /\ UNCHANGED <<mftVars, guide_trace>>

GetDiceProb ==
  /\ \E o \in Ordinals : \E c \in Costs :
       \E r \in {get_dice_prob(Engine, c.shape, o)} :
           /\ log_denom' = r.ld
           /\ log_probs' = r.lp
           /\ log_factors_cache' = r.lfc
           /\ dice_prob_cache' = r.dpc
           /\ ret' = r.ret
           /\ lastOp' = Call("get_dice_prob", c.shape, o, None, r)
  /\ UNCHANGED <<mftVars, guide_trace>>

Expectation ==
  /\ \E o \in Ordinals : \E c \in Costs :
       \E r \in {expectation(Engine, c, o)} :
           /\ log_denom' = r.ld
           /\ log_probs' = r.lp
           /\ log_factors_cache' = r.lfc
           /\ dice_prob_cache' = r.dpc
           /\ ret' = r.ret
           /\ lastOp' = Call("expectation", c.shape, o, c, r)
  /\ UNCHANGED <<mftVars, guide_trace>>

NextDice == GetLogFactors \/ GetDiceProb \/ Expectation

SpecDice == InitDice /\ [][NextDice]_vars

(***************************************************************************)
(* Claims about the accumulator.                                           *)
(***************************************************************************)

\* C1: sum_to(target_frames) does not mutate stored entries: the keys and
\* the shape and elements of every stored value are the same after the call
\* as before it.
C1_SumToKeepsEntries == [][lastOp'.op = "sum_to" => mft' = mft]_vars

\* C2: in every reachable state every stored (frames, value) entry has, for
\* each frame f of frames, f.dim < 0 and -rank(value) <= f.dim.
C2_FrameDimInvariant ==
  \A i \in DOMAIN mft :
    \A f \in mft[i].key : f.dim < 0 /\ -Len(mft[i].val.shape) <= f.dim

\* What sum_to is to return, stated element by element.  Every value is
\* read at the common rank R (missing leading axes have size 1).
PadShape(s, R) == [k \in 1..R |-> IF k <= R - Len(s) THEN 1 ELSE s[k - (R - Len(s))]]

CommonRank(m) ==
  LET ranks == {Len(m[i].val.shape) : i \in DOMAIN m}
                 \cup {-f.dim : f \in UNION {m[i].key : i \in DOMAIN m}}
  IN  CHOOSE r \in ranks : \A q \in ranks : q <= r

\* the axes of frames that are not in the target
GoneAxes(frames, target_frames, R) ==
  {R + f.dim + 1 : f \in frames \ target_frames}

MarginalShape(e, target_frames, R) ==
  LET P == PadShape(e.val.shape, R)
  IN  [k \in 1..R |-> IF k \in GoneAxes(e.key, target_frames, R) THEN 1 ELSE P[k]]

\* the element at flat index j of the marginal of entry e: the sum of the
\* elements of e.val that agree with j on every kept axis
MarginalAt(e, target_frames, R, out, j) ==
  LET P == PadShape(e.val.shape, R)
      O == MarginalShape(e, target_frames, R)
      gone == GoneAxes(e.key, target_frames, R)
      agree(i) == \A k \in (1..R) \ gone :
                     Coord(i, P, k) = (IF O[k] = 1 THEN 0 ELSE Coord(j, out, k))
      hits == {i \in 0..(Prod(P) - 1) : agree(i)}
  IN  SumSeq([x \in 1..Prod(P) |-> IF (x - 1) \in hits THEN e.val.data[x] ELSE 0])

ExpectedShape(m, target_frames) ==
  LET R == CommonRank(m)
  IN  [k \in 1..R |->
         CHOOSE a \in {MarginalShape(m[i], target_frames, R)[k] : i \in DOMAIN m} :
           \A i \in DOMAIN m : MarginalShape(m[i], target_frames, R)[k] <= a]

ExpectedSumTo(m, target_frames) ==
  IF m = <<>> THEN None
  ELSE LET R   == CommonRank(m)
           out == ExpectedShape(m, target_frames)
       IN  Value(SqueezeLeading(
             [shape |-> out,
              data  |-> [j \in 1..Prod(out) |->
                 SumSeq([i \in 1..Len(m) |->
                    MarginalAt(m[i], target_frames, R, out, j - 1)])]]))

\* C9: sum_to(target) returns the broadcast sum over all entries of the
\* entry's value with every axis of a frame outside target summed out and
\* every axis of a frame inside target kept (None for an empty accumulator).
C9_SumToMarginalizes ==
  lastOp.op = "sum_to" => ret = ExpectedSumTo(mft, lastOp.target)

\* C10: on the same context, add((ctx, v1)); add((ctx, v2)), the bulk call
\* add((ctx, v1), (ctx, v2)) and add((ctx, v1 + v2)) leave the same
\* accumulator; a pair whose key is present accumulates into the entry and
\* leaves the other entries alone; stacks with the same vectorized frames
\* share one entry.  The calls are tried on every reachable accumulator:
\* each one is the accumulator of a state that follows a construction or
\* an add that returned (add() with no pairs changes nothing).
C10_AddAccumulates ==
  (lastOp.op # "sum_to" /\ ret = None) =>
  /\ \A ctx \in Stacks : \A v1, v2 \in Tensors :
       LET s1     == add(mft, <<<<ctx, v1>>>>)
           s12    == add(s1.mft, <<<<ctx, v2>>>>)
           bulk   == add(mft, <<<<ctx, v1>>, <<ctx, v2>>>>)
           single == add(mft, <<<<ctx, TensorAdd(v1, v2)>>>>)
           key    == {ctx[i] : i \in {j \in DOMAIN ctx : ctx[j].vectorized}}
       IN  /\ (s1.ret = None /\ s12.ret = None) =>
                /\ bulk = s12
                /\ single = s12
           /\ (s1.ret = None /\ \E i \in DOMAIN mft : mft[i].key = key) =>
                /\ Len(s1.mft) = Len(mft)
                /\ \A i \in DOMAIN mft :
                     /\ s1.mft[i].key = mft[i].key
                     /\ mft[i].key # key => s1.mft[i].val = mft[i].val
                     /\ mft[i].key = key =>
                          LET old == mft[i].val
                              new == s1.mft[i].val
                          IN  \A j \in 1..Prod(new.shape) :
                                new.data[j] = BGet(old, new.shape, j - 1)
                                               + BGet(v1, new.shape, j - 1)
  /\ \A c1, c2 \in Stacks : \A v \in Tensors :
       {c1[i] : i \in {j \in DOMAIN c1 : c1[j].vectorized}}
         = {c2[i] : i \in {j \in DOMAIN c2 : c2[j].vectorized}}
       => add(mft, <<<<c1, v>>>>) = add(mft, <<<<c2, v>>>>)
  /\ \A i, j \in DOMAIN mft : mft[i].key = mft[j].key => i = j

\* C10 witness: an accumulator holding one entry, on whose key two further
\* adds return, change the entry and agree with the single add of v1 + v2
C10_Witness ==
  /\ lastOp.op = "add"
  /\ ret = None
  /\ Len(mft) = 1
  /\ \E ctx \in Stacks : \E v1, v2 \in Tensors :
       LET s12    == add(add(mft, <<<<ctx, v1>>>>).mft, <<<<ctx, v2>>>>)
           single == add(mft, <<<<ctx, TensorAdd(v1, v2)>>>>)
       IN  /\ FramesOf(ctx) = mft[1].key
           /\ s12.ret = None
           /\ Len(s12.mft) = 1
           /\ s12.mft[1].val # mft[1].val
           /\ single = s12

\* the pairs that add accepts
AcceptedPairs == {p \in Pairs : FramesFit(FramesOf(p[1]), p[2])}

RECURSIVE SetToSeq(_)
SetToSeq(S) ==
  IF S = {} THEN <<>>
  ELSE LET x == CHOOSE y \in S : TRUE IN <<x>> \o SetToSeq(S \ {x})

\* the same pairs in a row, so that each two of them are taken once
AcceptedSeq == SetToSeq(AcceptedPairs)

\* C11: add((ctxA, v1)); add((ctxB, v2)) followed by sum_to(target) returns
\* the same result as add((ctxB, v2)); add((ctxA, v1)) followed by
\* sum_to(target), for every two pairs that add accepts and every target.
\* The two sequences of calls are tried on the empty accumulator and on
\* every accumulator constructed from one pair.
C11_AddCommutes ==
  (lastOp.op = "init" /\ nPairs <= 1) =>
    \A i, j \in DOMAIN AcceptedSeq :
      i < j =>
        \A ab \in {add(add(mft, <<AcceptedSeq[i]>>).mft, <<AcceptedSeq[j]>>)} :
          \A ba \in {add(add(mft, <<AcceptedSeq[j]>>).mft, <<AcceptedSeq[i]>>)} :
            /\ ab.ret = None
            /\ ba.ret = None
            /\ \A t \in TargetFrames :
                 sum_to(ab.mft, t).ret = sum_to(ba.mft, t).ret

\* C11 witness: on the empty accumulator, two pairs with different keys
\* are stored in a different order by the two sequences of calls, and
\* sum_to returns the same tensor for both
C11_Witness ==
  /\ lastOp.op = "init"
  /\ mft = <<>>
  /\ \E a, b \in AcceptedPairs : \E t \in TargetFrames :
       LET ab == add(add(mft, <<a>>).mft, <<b>>)
           ba == add(add(mft, <<b>>).mft, <<a>>)
       IN  /\ Len(ab.mft) = 2
           /\ ab.mft # ba.mft
           /\ sum_to(ab.mft, t).ret.kind = "value"
           /\ sum_to(ab.mft, t).ret = sum_to(ba.mft, t).ret

\* a vectorized frame of the stack breaks the frame-dimension invariant
\* for the value
Violates(stack, value) ==
  \E i \in DOMAIN stack :
    /\ stack[i].vectorized
    /\ (stack[i].dim >= 0 \/ stack[i].dim < -Len(value.shape))

\* C12: when a pair's stack contains a vectorized frame f with f.dim >= 0
\* or f.dim < -rank(value), add raises the assertion error and leaves the
\* accumulator as it was (the pair is neither inserted nor merged); a pair
\* with no such frame is accepted whatever its non-vectorized frames are,
\* and no key ever holds a non-vectorized frame.  The call is tried on
\* every reachable accumulator.
C12_AddFailsLoudly ==
  /\ \A p \in Pairs :
       \A r \in {add(mft, <<p>>)} :
         IF Violates(p[1], p[2])
           THEN r.ret = Raised("AssertionError") /\ r.mft = mft
           ELSE /\ r.ret = None
                /\ \A i \in DOMAIN r.mft : \A f \in r.mft[i].key : f.vectorized
  /\ \A i \in DOMAIN mft : \A f \in mft[i].key : f.vectorized
  /\ (lastOp.op = "add" /\ ret # None) => ret = Raised("AssertionError")

\* C12 witness: an add has raised the assertion error, and a stack with a
\* non-vectorized frame of dim 0 is accepted
C12_Witness ==
  /\ lastOp.op = "add"
  /\ ret = Raised("AssertionError")
  /\ \E v \in Tensors :
       /\ Violates(<<FrameZ>>, v)
       /\ add(mft, <<<<<<FrameS, FrameA>>, v>>>>).ret = None

\* C16: reduce_to_shape(reduce_to_shape(x, shape), shape) equals
\* reduce_to_shape(x, shape) in shape and elements, and reduce_to_target(x, t)
\* equals reduce_to_shape(x, shape of t), for the array x and the shape of
\* the reduction just made.
C16_ReductionIdempotent ==
  /\ lastOp.op = "reduce_to_shape" =>
       reduce_to_shape(ret.val, lastOp.shape) = ret.val
  /\ lastOp.op = "reduce_to_target" =>
       ret.val = reduce_to_shape(lastOp.source, lastOp.shape)

\* C16 witness: a reduction to a shape has dropped a leading axis and
\* summed one out, leaving an array of other elements than its source and
\* of another shape than the target
C16_Witness ==
  /\ lastOp.op = "reduce_to_shape"
  /\ Len(lastOp.source.shape) > Len(lastOp.shape)
  /\ Len(ret.val.shape) = Len(lastOp.shape)
  /\ ret.val.shape # lastOp.shape
  /\ ret.val.data # lastOp.source.data
  /\ reduce_to_shape(ret.val, lastOp.shape) = ret.val

\* C19: a bulk add is applied pair by pair and is not atomic: when
\* add(p, q) raises at p the accumulator is as before the call and q is
\* not applied; when it raises at q the accumulator is the one add(p)
\* leaves; when neither pair is refused it is the one add(p); add(q)
\* leave.  Construction MultiFrameTensor(p, q) is add(p, q) on the empty
\* accumulator.  The call is tried on the empty accumulator and on every
\* accumulator constructed from one pair.
C19_BulkAddNotAtomic ==
  (lastOp.op = "init" /\ nPairs <= 1) =>
    \A p, q \in Pairs :
      \A bulk \in {add(mft, <<p, q>>)} :
        \A one \in {add(mft, <<p>>)} :
          IF Violates(p[1], p[2])
            THEN bulk = [mft |-> mft, ret |-> Raised("AssertionError")]
          ELSE IF Violates(q[1], q[2])
            THEN /\ one.ret = None
                 /\ bulk = [mft |-> one.mft, ret |-> Raised("AssertionError")]
          ELSE bulk = add(one.mft, <<q>>) /\ bulk.ret = None

\* C19 witness: on an accumulator with one entry, a bulk add whose second
\* pair is refused raises and leaves the first pair merged into the entry
C19_Witness ==
  /\ lastOp.op = "init"
  /\ Len(mft) = 1
  /\ \E p, q \in Pairs :
       LET bulk == add(mft, <<p, q>>)
       IN  /\ ~Violates(p[1], p[2])
           /\ Violates(q[1], q[2])
           /\ bulk.ret = Raised("AssertionError")
           /\ Len(bulk.mft) = 1
           /\ bulk.mft # mft
           /\ bulk.mft = add(mft, <<p>>).mft

(***************************************************************************)
(* Claims about the Dice engine.                                           *)
(***************************************************************************)
IsNumber(x) == x.kind = "number"

\* the ordinal has no entry, and no upstream ordinal has one, in log_denom
\* and in log_probs
NothingRecorded(o) ==
  /\ \A i \in DOMAIN log_denom : ~(log_denom[i].key \subseteq o)
  /\ \A i \in DOMAIN log_probs : ~(log_probs[i].key \subseteq o)

\* C3: looking up an ordinal with no recorded contributions is not an
\* error: get_log_factors and get_dice_prob both return without raising,
\* the list without any log-probability term and the weight without any
\* gradient.
C3_MissingOrdinalReturns ==
  (lastOp.op \in {"get_log_factors", "get_dice_prob"}
     /\ NothingRecorded(lastOp.target)) =>
    /\ ret.kind = "value"
    /\ lastOp.op = "get_log_factors" =>
         \A i \in DOMAIN ret.val : IsNumber(ret.val[i])
    /\ lastOp.op = "get_dice_prob" => ret.val.grad = {}

\* C4: after get_dice_prob(s, o) returns, the dice-prob cache holds its
\* result under the key (s, o), and every key of that cache is a
\* (shape, ordinal) pair.
C4_DiceProbCachedByShapeAndOrdinal ==
  /\ (lastOp.op = "get_dice_prob" /\ ret.kind = "value") =>
       /\ ShapeKey(lastOp.shape, lastOp.target) \in DOMAIN dice_prob_cache
       /\ dice_prob_cache[ShapeKey(lastOp.shape, lastOp.target)] = ret.val
  /\ \A k \in DOMAIN dice_prob_cache :
       \E c \in Costs : \E o \in Ordinals : k = ShapeKey(c.shape, o)

\* the trace of C5: a sequentially enumerated site of 3 outcomes and a
\* sampled site, in either order, at the same ordinal o
IsSequential3(site) ==
  /\ site.type = "sample" /\ site.score_function # "zero"
  /\ site.enumerate = "sequential" /\ site.enum_total = 3

IsSampled(site) ==
  /\ site.type = "sample" /\ site.score_function # "zero"
  /\ site.enumerate = "none"

C5_Trace(o) ==
  /\ Len(guide_trace) = 2
  /\ guide_trace[1].ordinal = o /\ guide_trace[2].ordinal = o
  /\ \/ IsSequential3(guide_trace[1]) /\ IsSampled(guide_trace[2])
     \/ IsSampled(guide_trace[1]) /\ IsSequential3(guide_trace[2])

MinusLog3 == PyNeg(MathLog(3))

HasMinusLog3(terms) == \E i \in DOMAIN terms : terms[i] = MinusLog3

\* C5 as stated: for that trace, get_log_factors for the shared ordinal
\* includes a -log(3) term.
C5_OwnOrdinalHasMinusLog3 ==
  (lastOp.op = "get_log_factors" /\ C5_Trace(lastOp.target)) =>
    HasMinusLog3(ret.val)

\* C5 amended: for that trace, get_log_factors for the shared ordinal o
\* has no -log(3) term; get_log_factors(t) has one exactly when o is not a
\* subset of t.
C5_MinusLog3OnlyWhenNotUpstream ==
  \A o \in SiteOrdinals :
    (lastOp.op = "get_log_factors" /\ C5_Trace(o)) =>
      /\ lastOp.target = o => ~HasMinusLog3(ret.val)
      /\ HasMinusLog3(ret.val) <=> ~(o \subseteq lastOp.target)

\* C5 witness: get_log_factors has answered for the shared ordinal, with
\* the two sites' terms
C5_Witness ==
  /\ lastOp.op = "get_log_factors"
  /\ C5_Trace(lastOp.target)
  /\ Len(ret.val) = 2

\* the rational of a set of log_denom entries added up
RECURSIVE RatProdOver(_)
RatProdOver(I) ==
  IF I = {} THEN <<1, 1>>
  ELSE LET i == CHOOSE j \in I : TRUE
       IN  RatMul(log_denom[i].val.explog, RatProdOver(I \ {i}))

DenomOf(target) ==
  RatProdOver({i \in DOMAIN log_denom : ~(log_denom[i].key \subseteq target)})

\* C6: get_log_factors(target) sums log_denom over exactly the recorded
\* ordinals that are not subsets of target; the list starts with the one
\* term -log_denom_total when the total is not zero and has no denominator
\* term when it is zero.
C6_DenominatorTerm ==
  lastOp.op = "get_log_factors" =>
    LET total == DenomOf(lastOp.target)
        terms == ret.val
    IN  IF total[1] = total[2]
          THEN \A i \in DOMAIN terms : ~IsNumber(terms[i])
          ELSE /\ terms # <<>>
               /\ terms[1] = Number(<<total[2], total[1]>>)
               /\ \A i \in DOMAIN terms : i > 1 => ~IsNumber(terms[i])

\* C6 witness: two ordinals have denominators, one upstream of the target
\* and one not, and the list starts with the denominator of the latter
C6_Witness ==
  /\ lastOp.op = "get_log_factors"
  /\ Len(log_denom) = 2
  /\ \E i, j \in DOMAIN log_denom :
       /\ log_denom[i].key \subseteq lastOp.target
       /\ ~(log_denom[j].key \subseteq lastOp.target)
       /\ log_denom[i].val # PyZero
       /\ ret.val # <<>>
       /\ ret.val[1] = PyNeg(log_denom[j].val)

\* the list without its denominator term
ProbTerms(terms) ==
  IF terms # <<>> /\ IsNumber(terms[1]) THEN Tail(terms) ELSE terms

UpstreamKeys(target) ==
  {i \in DOMAIN log_probs : log_probs[i].key \subseteq target}

\* where the terms of entry i start in the concatenation
Offset(i, target) ==
  SumSeq([j \in 1..(i - 1) |->
     IF j \in UpstreamKeys(target) THEN Len(log_probs[j].val) ELSE 0])

\* the first site of the trace that appends a term at ordinal o
FirstSiteAt(o) ==
  CHOOSE i \in DOMAIN guide_trace :
    /\ guide_trace[i].type = "sample"
    /\ guide_trace[i].score_function # "zero"
    /\ guide_trace[i].ordinal = o
    /\ \A j \in 1..(i - 1) :
         ~(guide_trace[j].type = "sample"
             /\ guide_trace[j].score_function # "zero"
             /\ guide_trace[j].ordinal = o)

\* C7: after the optional denominator term, get_log_factors(target) is the
\* concatenation, in the order in which the ordinals were first inserted
\* into log_probs, of log_probs[o] for exactly the ordinals o that are
\* subsets of target.
C7_UpstreamTermsInInsertionOrder ==
  /\ \A i, j \in DOMAIN log_probs :
       i < j => FirstSiteAt(log_probs[i].key) < FirstSiteAt(log_probs[j].key)
  /\ lastOp.op = "get_log_factors" =>
       LET terms == ProbTerms(ret.val)
           up    == UpstreamKeys(lastOp.target)
       IN  /\ Len(terms) = Offset(Len(log_probs) + 1, lastOp.target)
           /\ \A i \in up : \A k \in DOMAIN log_probs[i].val :
                terms[Offset(i, lastOp.target) + k] = log_probs[i].val[k]

\* C7 witness: the ordinal inserted first is the larger one, both are
\* upstream of the target, and the list holds the terms of both
C7_Witness ==
  /\ lastOp.op = "get_log_factors"
  /\ Len(log_probs) = 2
  /\ log_probs[1].key = {FrameA}
  /\ log_probs[2].key = {}
  /\ lastOp.target = {FrameA}
  /\ Len(ProbTerms(ret.val)) = 2

\* the trace of C8: sampled sites x at ordinal {} and y at ordinal {A}, in
\* either order
C8_Trace ==
  /\ Len(guide_trace) = 2
  /\ IsSampled(guide_trace[1]) /\ IsSampled(guide_trace[2])
  /\ {guide_trace[1].ordinal, guide_trace[2].ordinal} = {{}, {FrameA}}

C8_Call ==
  /\ C8_Trace
  /\ lastOp.op = "expectation"
  /\ lastOp.target = {FrameA}
  /\ lastOp.shape = <<AxisSize>>

\* C8: for that trace and a cost array living at {A}, expectation(cost, {A})
\* has forward value sum(cost), and its weight is exp of the sum of exactly
\* the two surrogate terms of x and y, each of forward value 0.
C8_ExpectationOfSampledSites ==
  C8_Call =>
    /\ ret.kind = "value"
    /\ ret.val.lin = <<SumSeq(lastOp.cost.data), 1>>
    /\ ret.val.grad = {SiteName(1), SiteName(2)}
    /\ {FrameA} \in DOMAIN log_factors_cache
    /\ LET f == log_factors_cache[{FrameA}]
       IN  /\ Len(f) = 2
           /\ \A i \in 1..2 :
                /\ f[i].kind = "tensor"
                /\ f[i].explog = <<1, 1>>
                /\ f[i].grad = {SiteName(i)}

\* C8 witness: the expectation has been taken
C8_Witness == C8_Call /\ ret.kind = "value"

\* C13: a Dice engine is not mutated after construction aside from its
\* caches: every get_log_factors, get_dice_prob and expectation call, also
\* one with an ordinal that was never recorded, leaves log_denom and
\* log_probs (keys, order, and every term list) as they were.
C13_EngineNotMutated ==
  [][lastOp'.op \in {"get_log_factors", "get_dice_prob", "expectation"} =>
       (log_denom' = log_denom /\ log_probs' = log_probs)]_vars

\* C13 witness: the engine has recorded denominators and terms, a query
\* for an ordinal recorded in neither has returned a value, and the two
\* mappings are those of the construction
C13_Witness ==
  /\ lastOp.op = "expectation"
  /\ ret.kind = "value"
  /\ log_denom # <<>>
  /\ lastOp.target \notin DictKeys(log_denom)
  /\ lastOp.target \notin DictKeys(log_probs)
  /\ log_denom = DiceInit(guide_trace).log_denom
  /\ log_probs = DiceInit(guide_trace).log_probs

\* the engine with both caches emptied
Uncached == [ld |-> log_denom, lp |-> log_probs, lfc |-> <<>>, dpc |-> <<>>]

\* C14: cache population is not observable: whatever calls preceded it,
\* each get_log_factors, get_dice_prob and expectation call returns what
\* the same call returns on the engine with empty caches, recomputed from
\* log_denom and log_probs.
C14_CacheNotObservable ==
  /\ lastOp.op = "get_log_factors" =>
       ret = get_log_factors(Uncached, lastOp.target).ret
  /\ lastOp.op = "get_dice_prob" =>
       ret = get_dice_prob(Uncached, lastOp.shape, lastOp.target).ret
  /\ lastOp.op = "expectation" =>
       ret = expectation(Uncached, lastOp.cost, lastOp.target).ret

\* C14 witness: a non-empty list of factors was answered from the cache
\* while the cache holds the lists of other ordinals as well
C14_Witness ==
  /\ lastOp.op = "get_log_factors"
  /\ lastOp.hit
  /\ ret.val # <<>>
  /\ \E o \in DOMAIN log_factors_cache :
       log_factors_cache[o] # ret.val
  /\ DOMAIN dice_prob_cache # {}

\* the sites that count for the denominator of ordinal o: sample sites at
\* o, enumerated sequentially, whose log-probability is not the zero
\* sentinel
SequentialSitesAt(o) ==
  {i \in DOMAIN guide_trace :
     /\ guide_trace[i].type = "sample"
     /\ guide_trace[i].score_function # "zero"
     /\ guide_trace[i].enumerate = "sequential"
     /\ guide_trace[i].ordinal = o}

RECURSIVE TotalOver(_)
TotalOver(I) ==
  IF I = {} THEN 1
  ELSE LET i == CHOOSE j \in I : TRUE
       IN  guide_trace[i].enum_total * TotalOver(I \ {i})

\* log_denom[o] as the defaultdict reads it: 0.0 for a missing key
DenomAt(o) ==
  IF o \in DictKeys(log_denom) THEN DictGet(log_denom, o) ELSE PyZero

\* C17: after construction, log_denom[o] is the sum of log(_enum_total)
\* over exactly the sample sites of ordinal o that are enumerated
\* sequentially and whose log-probability is not identically zero (the log
\* of the product of their totals); no other site adds to it, and an
\* ordinal is a key only if it has such a site.
C17_LogDenomFromSequentialSites ==
  \A o \in Ordinals :
    /\ DenomAt(o) = Number(Rat(TotalOver(SequentialSitesAt(o)), 1))
    /\ o \in DictKeys(log_denom) => SequentialSitesAt(o) # {}

\* C17 witness: a trace of a sequentially enumerated site of 3 outcomes and
\* a sampled site at one ordinal, whose denominator is log(3), has been
\* queried
C17_Witness ==
  /\ \E o \in SiteOrdinals : C5_Trace(o) /\ DenomAt(o) = MathLog(3)
  /\ lastOp.op # "init"

\* the term expected of site i: its log-probability (log(1/2) or log(1),
\* differentiating as the site) if it was enumerated, and a tensor of
\* forward value 0 with the same gradient if it was sampled
ExpectedTerm(i) ==
  LET site == guide_trace[i]
      value == IF site.enumerate = "none" THEN <<1, 1>>
               ELSE IF site.score_function = "half" THEN <<1, 2>>
               ELSE <<1, 1>>
  IN  [kind |-> "tensor", shape |-> BatchShape(site.ordinal),
       explog |-> value, grad |-> {SiteName(i)}]

\* the terms expected at ordinal o of the first n sites, in trace order
RECURSIVE ExpectedTerms(_, _)
ExpectedTerms(o, n) ==
  IF n = 0 THEN <<>>
  ELSE ExpectedTerms(o, n - 1)
         \o (IF /\ guide_trace[n].type = "sample"
                 /\ guide_trace[n].score_function # "zero"
                 /\ guide_trace[n].ordinal = o
               THEN <<ExpectedTerm(n)>> ELSE <<>>)

\* C18: after construction, log_probs[o] holds, in trace order, exactly
\* one term for each sample site of ordinal o whose log-probability is not
\* identically zero: the log-probability of an enumerated site (sequential
\* or parallel), the surrogate of forward value 0 and the gradient of the
\* log-probability for a sampled one; an ordinal without such a site is
\* not a key.
C18_LogProbsFromSampleSites ==
  \A o \in Ordinals :
    LET terms == ExpectedTerms(o, Len(guide_trace))
    IN  IF terms = <<>> THEN o \notin DictKeys(log_probs)
        ELSE /\ o \in DictKeys(log_probs)
             /\ DictGet(log_probs, o) = terms

\* C18 witness: an enumerated site and a sampled site at one ordinal have
\* left two different terms there, the sampled one's of forward value 0
C18_Witness ==
  \E o \in DictKeys(log_probs) :
    /\ C5_Trace(o)
    /\ Len(DictGet(log_probs, o)) = 2
    /\ \E k \in 1..2 :
         /\ IsSampled(guide_trace[k])
         /\ DictGet(log_probs, o)[k].explog = <<1, 1>>
         /\ DictGet(log_probs, o)[3 - k].explog = <<1, 2>>
         /\ DictGet(log_probs, o)[k].grad = {SiteName(k)}

\* the two calls are the same query with the same arguments
SameQuery(a, b) ==
  /\ a.op = b.op
  /\ a.target = b.target
  /\ a.op = "get_dice_prob" => a.shape = b.shape

\* C15: a get_log_factors, get_dice_prob or sum_to query whose argument
\* has been queried before (here: it repeats the query just made) writes
\* no shared state: it assigns no cache entry and changes no stored
\* accumulator value.  Queries that write nothing can be interleaved
\* freely, each returning what it returns when run alone.
C15_WarmQueriesWriteNothing ==
  [][(lastOp'.op \in {"get_log_factors", "get_dice_prob", "sum_to"}
        /\ SameQuery(lastOp, lastOp')) =>
       /\ mft' = mft
       /\ log_factors_cache' = log_factors_cache
       /\ dice_prob_cache' = dice_prob_cache
       /\ lastOp'.op # "sum_to" => lastOp'.wr = {}]_vars

====
